---- MODULE Spec2Model ----
(***************************************************************************)
(* A model of map-deduper.py: the tag diff of two map records, the merge   *)
(* policy built on it (get_pixels_to_apply, can_merge, merge_map,          *)
(* apply_pixels), the choice of merge target among duplicates, the dedupe  *)
(* run over a world and the defragmentation plan.                          *)
(*                                                                         *)
(* A map record is the NBT tree of one map_<id>.dat file:                  *)
(*   [DataVersion], data.{scale, dimension, xCenter, zCenter,              *)
(*   unlimitedTracking, [banners], colors}.                                *)
(* The walk over a record (mcworldlib's deep_walk) visits every descendant *)
(* of the root, the cells of data.colors included: get_pixels_to_apply     *)
(* reads a pixel divergence as a diff whose path is data.colors and whose  *)
(* key is the cell's index.                                                *)
(***************************************************************************)
EXTENDS Integers, Sequences, FiniteSets, TLC

\* ---------------------------------------------------------------- bounds

\* Number of cells of a raster (data.colors); indices are 0..RasterLen-1.
RasterLen == 2
\* Pixel values are 0..MaxPixel; 0 is the blank pixel.
MaxPixel == 2
\* DataVersion values are 1..MaxDataVersion.
MaxDataVersion == 2
\* A record's data.banners list, when present, holds 0..MaxBanners banners.
MaxBanners == 1

Cells == 0 .. (RasterLen - 1)
Pixels == 0 .. MaxPixel
Rasters == [Cells -> Pixels]
BlankRaster == [c \in Cells |-> 0]

\* ---------------------------------------------------------------- records

\* The dimension tag is a String in new files and an Int in old ones
\* (Map.dim_map maps both forms to the same dimension).
DimensionTags ==
    { [type |-> "String", name |-> "overworld"],
      [type |-> "Int", name |-> "overworld"],
      [type |-> "String", name |-> "the_nether"] }

\* Map.dim_map: the dimension a dimension tag stands for.
dim_map(tag) == tag.name

\* A record: the root tags DataVersion and data. Files written before the
\* DataVersion tag existed have no such tag at the root (hasDataVersion is
\* FALSE and the DataVersion field is 0).
BaseMap ==
    [ hasDataVersion |-> TRUE,
      DataVersion |-> 1,
      dimension |-> [type |-> "String", name |-> "overworld"],
      xCenter |-> 0,
      zCenter |-> 0,
      scale |-> 0,
      unlimitedTracking |-> 0,
      hasBanners |-> FALSE,
      banners |-> 0,
      colors |-> BlankRaster ]

\* Map.data_version
data_version(m) == m.DataVersion

\* Map.is_player
is_player(m) == m.unlimitedTracking = 0

\* Map.key: MapKey(dimension, center, is_player, scale)
key(m) == << dim_map(m.dimension), << m.xCenter, m.zCenter >>, is_player(m), m.scale >>

\* ---------------------------------------------------------------- tag walk

\* A visited tag: the path of its container, and its key in it (a name, or
\* an index when the container is a list or an array).
NamedTag(path, name) == [path |-> path, key |-> name, index |-> 0]
IndexedTag(path, i) == [path |-> path, key |-> "", index |-> i]

DataPath == << "data" >>
ColorsPath == << "data", "colors" >>
BannersPath == << "data", "banners" >>
DataVersionPath == << "DataVersion" >>

\* path[key] of a named tag
FullPath(n) == Append(n.path, n.key)

\* The keys of the data compound of a record, in file order.
DataKeys(m) ==
    << "scale", "dimension", "xCenter", "zCenter", "unlimitedTracking" >>
    \o (IF m.hasBanners THEN << "banners" >> ELSE << >>)
    \o << "colors" >>

\* The tags below data.<name>, in walk order.
ChildTags(m, name) ==
    CASE name = "banners" -> [k \in 1 .. m.banners |-> IndexedTag(BannersPath, k - 1)]
      [] name = "colors" -> [k \in 1 .. RasterLen |-> IndexedTag(ColorsPath, k - 1)]
      [] OTHER -> << >>

RECURSIVE WalkData(_, _)
WalkData(m, keys) ==
    IF keys = << >> THEN << >>
    ELSE << NamedTag(DataPath, Head(keys)) >>
         \o ChildTags(m, Head(keys))
         \o WalkData(m, Tail(keys))

\* mc.deep_walk(source): every descendant of the root, depth first.
deep_walk(m) ==
    << NamedTag(<< >>, "data") >>
    \o WalkData(m, DataKeys(m))
    \o (IF m.hasDataVersion THEN << NamedTag(<< >>, "DataVersion") >> ELSE << >>)

\* data.path[data.key] in target
HasTag(m, n) ==
    CASE n.key = "DataVersion" -> m.hasDataVersion
      [] n.key = "banners" -> m.hasBanners
      [] n.key = "" /\ n.path = BannersPath -> m.hasBanners /\ n.index < m.banners
      [] n.key = "" /\ n.path = ColorsPath -> n.index < RasterLen
      [] OTHER -> TRUE

\* type(tag)
TypeOf(m, n) ==
    CASE n.key = "data" -> "Compound"
      [] n.key = "DataVersion" -> "Int"
      [] n.key = "scale" -> "Byte"
      [] n.key = "dimension" -> m.dimension.type
      [] n.key = "xCenter" -> "Int"
      [] n.key = "zCenter" -> "Int"
      [] n.key = "unlimitedTracking" -> "Byte"
      [] n.key = "banners" -> "List"
      [] n.key = "colors" -> "ByteArray"
      [] n.key = "" /\ n.path = BannersPath -> "Compound"
      [] OTHER -> "Byte"

\* FQTag.is_container
is_container(n) ==
    \/ n.key \in {"data", "banners", "colors"}
    \/ n.key = "" /\ n.path = BannersPath

\* len(tag) of a container
LenOf(m, n) ==
    CASE n.key = "data" -> Len(DataKeys(m))
      [] n.key = "banners" -> m.banners
      [] n.key = "colors" -> RasterLen
      [] OTHER -> 0

\* The value of a leaf tag.
LeafOf(m, n) ==
    CASE n.key = "DataVersion" -> m.DataVersion
      [] n.key = "scale" -> m.scale
      [] n.key = "dimension" -> m.dimension.name
      [] n.key = "xCenter" -> m.xCenter
      [] n.key = "zCenter" -> m.zCenter
      [] n.key = "unlimitedTracking" -> m.unlimitedTracking
      [] OTHER -> m.colors[n.index]

TagDiff(category, n, src, tgt) ==
    [category |-> category, path |-> n.path, key |-> n.key, index |-> n.index,
     source |-> src, target |-> tgt]

\* get_map_diffs.evaluate: the divergence at one source tag ("" when none).
evaluate(n, source, target) ==
    IF ~HasTag(target, n) THEN TagDiff("missing", n, "None", "None")
    ELSE IF TypeOf(target, n) # TypeOf(source, n)
         THEN TagDiff("type", n, TypeOf(source, n), TypeOf(target, n))
    ELSE IF is_container(n)
         THEN IF LenOf(target, n) # LenOf(source, n)
              THEN TagDiff("length", n, LenOf(source, n), LenOf(target, n))
              ELSE TagDiff("", n, "None", "None")
    ELSE IF LeafOf(target, n) # LeafOf(source, n)
         THEN TagDiff("value", n, LeafOf(source, n), LeafOf(target, n))
         ELSE TagDiff("", n, "None", "None")

\* get_map_diffs: the divergences of the source's tags, in walk order.
get_map_diffs(source, target) ==
    LET walk == deep_walk(source)
        all == [k \in 1 .. Len(walk) |-> evaluate(walk[k], source, target)]
    IN SelectSeq(all, LAMBDA d : d.category # "")

\* ---------------------------------------------------------------- merge policy

\* diff.category == "value"
IsValueDiff(diff) == diff.category = "value"

\* diff.path[diff.key] == mc.Path("DataVersion")
AtDataVersion(diff) == diff.key # "" /\ FullPath(diff) = DataVersionPath

\* Mutant of DataVersionAccepted: any DataVersion divergence is passed over.
DataVersionAccepted_Any(diff) == diff.target >= diff.source \/ diff.target < diff.source

\* diff.target >= diff.source, for a DataVersion divergence
DataVersionAccepted(diff) == diff.target >= diff.source

\* diff.path == mc.Path("data.colors")
InColors(diff) == diff.path = ColorsPath

\* Mutant of TakesPixel: a non-blank source pixel is taken whatever the target holds.
TakesPixel_Overwrite(diff) == diff.source # 0

\* diff.source and not diff.target
TakesPixel(diff) == diff.source # 0 /\ diff.target = 0

\* get_pixels_to_apply, from diff number i on: raised is the MCError; i is the
\* number of divergences consumed.
RECURSIVE ScanDiffs(_, _, _)
ScanDiffs(diffs, i, pixels) ==
    IF i > Len(diffs)
    THEN [raised |-> FALSE, pixels |-> pixels, i |-> Len(diffs)]
    ELSE LET diff == diffs[i]
             error == [raised |-> TRUE, pixels |-> << >>, i |-> i]
         IN IF ~IsValueDiff(diff) THEN error
            ELSE IF AtDataVersion(diff)
                 THEN IF ~DataVersionAccepted(diff) THEN error
                      ELSE ScanDiffs(diffs, i + 1, pixels)
            ELSE IF ~InColors(diff) THEN error
            ELSE ScanDiffs(diffs, i + 1,
                           IF TakesPixel(diff)
                           THEN Append(pixels, << diff.index, diff.source >>)
                           ELSE pixels)

get_pixels_to_apply(source, target) == ScanDiffs(get_map_diffs(source, target), 1, << >>)

\* can_merge: (mergeable, pixels)
can_merge(source, target) ==
    LET r == get_pixels_to_apply(source, target)
    IN IF r.raised THEN [mergeable |-> FALSE, pixels |-> << >>]
       ELSE [mergeable |-> TRUE, pixels |-> r.pixels]

\* Mutant of apply_pixels: the pixels are written to a copy of the raster that
\* is never put back into the target.
apply_pixels_CopyOnly(target, pixels) == target

\* apply_pixels: the pixels are written in list order.
RECURSIVE apply_pixels(_, _)
apply_pixels(target, pixels) ==
    IF pixels = << >> THEN target
    ELSE apply_pixels([target EXCEPT !.colors[Head(pixels)[1]] = Head(pixels)[2]],
                      Tail(pixels))

\* assert len(get_pixels_to_apply(source, target)[0]) == 0, after apply_pixels:
\* an MCError raised by the call propagates instead.
PostMergeCheck(source, target) ==
    LET r == get_pixels_to_apply(source, target)
    IN IF r.raised THEN "MCError"
       ELSE IF Len(r.pixels) = 0 THEN "ok" ELSE "AssertionError"

\* any(source[mc.Path("data.colors")])
AnyColors(m) == \E c \in Cells : m.colors[c] # 0

\* ---------------------------------------------------------------- duplicates

\* The ids of a set, ascending: the order of Map.load_all's dict.
RECURSIVE IdSeq(_)
IdSeq(S) ==
    IF S = {} THEN << >>
    ELSE LET m == CHOOSE x \in S : \A y \in S : x <= y
         IN << m >> \o IdSeq(S \ {m})

\* map_dupes.setdefault(key, []).append(mapitem)
SetDefaultAppend(map_dupes, k, i) ==
    IF \E n \in 1 .. Len(map_dupes) : map_dupes[n].key = k
    THEN [n \in 1 .. Len(map_dupes) |->
             IF map_dupes[n].key = k
             THEN [map_dupes[n] EXCEPT !.dupes = Append(@, i)]
             ELSE map_dupes[n]]
    ELSE Append(map_dupes, [key |-> k, dupes |-> << i >>])

RECURSIVE MapDupes(_, _, _)
MapDupes(maps, ids, map_dupes) ==
    IF ids = << >> THEN map_dupes
    ELSE MapDupes(maps, Tail(ids),
                  SetDefaultAppend(map_dupes, key(maps[Head(ids)]), Head(ids)))

\* get_duplicates: the groups of more than one map, as lists of ids.
get_duplicates(maps) ==
    LET map_dupes == MapDupes(maps, IdSeq(DOMAIN maps), << >>)
        many == SelectSeq(map_dupes, LAMBDA e : Len(e.dupes) > 1)
    IN [n \in 1 .. Len(many) |-> many[n].dupes]

\* Mutant of SortKey: ties on DataVersion are ordered by ascending id.
SortKey_AscendingId(maps, i) == << data_version(maps[i]), i >>

\* The sort key of dedupe: (data_version, -mapid)
SortKey(maps, i) == << data_version(maps[i]), 0 - i >>

\* Tuple comparison a <= b.
KeyLeq(a, b) == a[1] < b[1] \/ (a[1] = b[1] /\ a[2] <= b[2])

\* One step of a stable sort: i goes after the entries whose key is <= its own.
RECURSIVE InsertByKey(_, _, _)
InsertByKey(maps, sorted, i) ==
    IF sorted = << >> THEN << i >>
    ELSE IF KeyLeq(SortKey(maps, Head(sorted)), SortKey(maps, i))
         THEN << Head(sorted) >> \o InsertByKey(maps, Tail(sorted), i)
         ELSE << i >> \o sorted

\* dupes.sort(key=lambda _: (_.data_version, -_.mapid))
RECURSIVE SortDupes(_, _)
SortDupes(maps, dupes) ==
    IF dupes = << >> THEN << >>
    ELSE InsertByKey(maps, SortDupes(maps, SubSeq(dupes, 1, Len(dupes) - 1)),
                     dupes[Len(dupes)])

\* The merges dedupe plans for one group: the candidates can_merge accepts.
PlannedMerges(maps, tgt, cands) ==
    LET ok == SelectSeq(cands, LAMBDA c : can_merge(maps[c], maps[tgt]).mergeable)
    IN [n \in 1 .. Len(ok) |->
           [source |-> ok[n], target |-> tgt,
            pixels |-> can_merge(maps[ok[n]], maps[tgt]).pixels]]

\* ---------------------------------------------------------------- defragmentation

\* Mutant of ShiftMap: ranks are counted from 1.
ShiftMap_FromOne(maps) ==
    LET ids == IdSeq(DOMAIN maps)
    IN {<< ids[k], k >> : k \in {j \in 1 .. Len(ids) : j < ids[j]}}

\* shift_map = {m: i for i, m in enumerate(maps) if i < m}
ShiftMap(maps) ==
    LET ids == IdSeq(DOMAIN maps)
    IN {<< ids[k], k - 1 >> : k \in {j \in 1 .. Len(ids) : j - 1 < ids[j]}}

\* maxid = len(maps) - 1
NewMaxId(maps) == Cardinality(DOMAIN maps) - 1

\* ---------------------------------------------------------------- state

VARIABLES
    pc,         \* the position of the running command
    files,      \* the world's data/map_<id>.dat files: id -> record
    baks,       \* the ids of the files renamed to map_<id>.bak
    idcounts,   \* data.map of idcounts.dat
    all_maps,   \* the records loaded in memory: id -> record
    dupes_map,  \* dedupe: the duplicate groups still to be looked at, lists of ids
    target,     \* the id of the current merge target
    candidates, \* dedupe: the source candidates of the current group, ids
    source,     \* the id of the current merge source
    sources,    \* the merges still to do: dedupe's [source, target, pixels],
                \* merge's source ids
    refs,       \* the ids with at least one reference in the world
    partial,    \* whether the reference walk was interrupted
    shift_map,  \* defrag_maps: the planned moves, << old id, new id >>
    maxid,      \* defrag_maps: the new value of idcounts.dat
    changes,    \* the pixels of the last merge
    diffs,      \* merge_map: the number of divergences of the last merge
    outcome,    \* how the command ended ("" while it runs)
    orig        \* history: the store as the command found it, [files, idcounts]

vars == << pc, files, baks, idcounts, all_maps, dupes_map, target, candidates,
           source, sources, refs, partial, shift_map, maxid, changes, diffs,
           outcome, orig >>

NoId == -1

\* The state of a command at position start, over the given files, with the
\* given records loaded and the given groups to look at.
Started(start, world, counter, loaded, groups) ==
    /\ pc = start
    /\ files = world
    /\ baks = {}
    /\ idcounts = counter
    /\ all_maps = loaded
    /\ dupes_map = groups
    /\ target = NoId
    /\ candidates = << >>
    /\ source = NoId
    /\ sources = << >>
    /\ refs = {}
    /\ partial = FALSE
    /\ shift_map = {}
    /\ maxid = NoId
    /\ changes = << >>
    /\ diffs = 0
    /\ outcome = ""
    /\ orig = [files |-> world, idcounts |-> counter]

\* The state of a command that has not done anything yet.
Fresh(start, world, counter) == Started(start, world, counter, << >>, << >>)

MinOf(S) == CHOOSE x \in S : \A y \in S : x <= y
MaxOf(S) == CHOOSE x \in S : \A y \in S : y <= x

\* ---------------------------------------------------------------- merge command

\* The records of a pair: BaseMap changed in one piece of metadata, with any
\* raster.
MetaVariants ==
    {BaseMap}
    \cup {[BaseMap EXCEPT !.DataVersion = v] : v \in 2 .. MaxDataVersion}
    \cup {[BaseMap EXCEPT !.hasDataVersion = FALSE, !.DataVersion = 0]}
    \cup {[BaseMap EXCEPT !.dimension = d] : d \in DimensionTags}
    \cup {[BaseMap EXCEPT !.hasBanners = TRUE, !.banners = b] : b \in 0 .. MaxBanners}

PairRecords == {[m EXCEPT !.colors = r] : m \in MetaVariants, r \in Rasters}

\* The command line "merge <lowest id> <the other ids, ascending>".
MergeCommand(world) == Fresh("merge", world, MaxOf(DOMAIN world))

\* merge 0 1, over every pair of records.
InitMerge == \E w \in [{0, 1} -> PairRecords] : MergeCommand(w)

\* merge, lines 130-136: the target and the sources are loaded.
MergeLoad ==
    /\ pc = "merge"
    /\ all_maps' = files
    /\ target' = MinOf(DOMAIN files)
    /\ sources' = IdSeq(DOMAIN files \ {MinOf(DOMAIN files)})
    /\ pc' = "merge_map"
    /\ UNCHANGED << files, baks, idcounts, dupes_map, candidates, source, refs,
                    partial, shift_map, maxid, changes, diffs, outcome, orig >>

\* The records merge_map is called with, and what it computes first.
Src == all_maps[Head(sources)]
Tgt == all_maps[target]
MergePixels == get_pixels_to_apply(Src, Tgt)

\* The loop of merge goes on to the next source, or ends.
MergeNext ==
    /\ sources' = Tail(sources)
    /\ pc' = IF Tail(sources) = << >> THEN "done" ELSE "merge_map"

MergeFrame ==
    UNCHANGED << baks, idcounts, dupes_map, target, candidates, refs, partial,
                 shift_map, maxid, orig >>

\* merge_map, lines 399-404 and 406-410: get_pixels_to_apply raised (the error
\* ends the command), or found no divergence at all, or found divergences and
\* no pixel to apply.
MergeNothing(r) ==
    /\ IF r.raised THEN TRUE ELSE r.pixels = << >>
    /\ IF r.raised
       THEN outcome' = "MCError" /\ pc' = "done" /\ UNCHANGED sources
       ELSE IF r.i = 0
       THEN IF Src = Tgt
            THEN outcome' = "identical" /\ MergeNext
            ELSE outcome' = "AssertionError" /\ pc' = "done" /\ UNCHANGED sources
       ELSE IF AnyColors(Src)
            THEN outcome' = "AssertionError" /\ pc' = "done" /\ UNCHANGED sources
            ELSE outcome' = "nochanges" /\ MergeNext
    /\ changes' = << >>
    /\ UNCHANGED << files, all_maps >>

\* merge_map, lines 412-416: pixels are applied, checked, and the target is
\* saved.
MergeApply(r) ==
    /\ ~r.raised
    /\ r.pixels # << >>
    /\ \E merged \in {apply_pixels(Tgt, r.pixels)} :
       \E check \in {PostMergeCheck(Src, merged)} :
          /\ all_maps' = [all_maps EXCEPT ![target] = merged]
          /\ IF check = "ok"
             THEN /\ outcome' = "merged"
                  /\ files' = [files EXCEPT ![target] = merged]
                  /\ MergeNext
             ELSE /\ outcome' = check
                  /\ pc' = "done"
                  /\ UNCHANGED << files, sources >>
    /\ changes' = r.pixels

\* merge_map(source, target), for the next source of merge's loop.
MergeMap ==
    /\ pc = "merge_map"
    /\ \E r \in {MergePixels} :
          /\ MergeNothing(r) \/ MergeApply(r)
          /\ diffs' = r.i
    /\ source' = Head(sources)
    /\ MergeFrame

NextMerge == MergeLoad \/ MergeMap

SpecMerge == InitMerge /\ [][NextMerge]_vars

\* ---------------------------------------------------------------- dedupe command

\* The ids a world's map files may have.
MapIds == {0, 1, 2}

\* The DataVersions of a world's maps: an older and a newer one.
WorldVersions == {1, 2}

\* Rasters with at most one painted cell.
WorldRasters == {r \in Rasters : Cardinality({c \in Cells : r[c] # 0}) <= 1}

\* The records of a world: player maps of one place with any DataVersion and
\* raster, a map of another place, a map that is not a player map, and a map
\* of the same place whose dimension tag is of the old type.
WorldRecords ==
    {[BaseMap EXCEPT !.DataVersion = v, !.colors = r] :
        v \in WorldVersions, r \in WorldRasters}
    \cup {[BaseMap EXCEPT !.xCenter = 1],
          [BaseMap EXCEPT !.unlimitedTracking = 1],
          [BaseMap EXCEPT !.dimension = [type |-> "Int", name |-> "overworld"]]}

\* Worlds of two or three maps.
SmallWorlds ==
    UNION {[S -> WorldRecords] : S \in {T \in SUBSET MapIds : Cardinality(T) >= 2}}

\* Worlds of four maps, with ids 0..3 or with a gap below them: player maps of
\* two places, blank or with the first cell painted in the first colour.
WideRecords ==
    {[BaseMap EXCEPT !.xCenter = x, !.colors = r] :
        x \in {0, 1}, r \in {BlankRaster, [BlankRaster EXCEPT ![0] = 1]}}

WideWorlds == [{0, 1, 2, 3} -> WideRecords] \cup [{1, 2, 3, 4} -> WideRecords]

Worlds == SmallWorlds \cup WideWorlds

InitDedupe == \E w \in Worlds : Fresh("dedupe", w, MaxOf(DOMAIN w))

\* dedupe, lines 165-173: load the maps, keep the player maps, group them.
FindDuplicates ==
    /\ pc = "dedupe"
    /\ all_maps' = files
    /\ LET players == {i \in DOMAIN files : is_player(files[i])}
           maps == [i \in players |-> files[i]]
       IN \E groups \in {get_duplicates(maps)} :
          /\ dupes_map' = groups
          /\ IF groups = << >>
             THEN pc' = "done" /\ outcome' = "No duplicate maps!"
             ELSE pc' = "choose" /\ outcome' = ""
    /\ UNCHANGED << files, baks, idcounts, target, candidates, source, sources,
                    refs, partial, shift_map, maxid, changes, diffs, orig >>

\* dedupe, lines 180-191: one round of the loop over the groups: sort, pop the
\* target, ask can_merge for every candidate.
ChooseTarget ==
    /\ pc = "choose"
    /\ dupes_map # << >>
    /\ \E dupes \in {SortDupes(all_maps, Head(dupes_map))} :
       LET tgt == dupes[Len(dupes)]
           cands == SubSeq(dupes, 1, Len(dupes) - 1)
           clash == \E n \in 1 .. Len(cands), k \in 1 .. Len(sources) :
                        sources[k].source = cands[n]
       IN \E planned \in {sources \o PlannedMerges(all_maps, tgt, cands)} :
          /\ target' = tgt
          /\ candidates' = cands
          /\ sources' = planned
          /\ dupes_map' = Tail(dupes_map)
          /\ IF clash
             THEN pc' = "done" /\ outcome' = "AssertionError"
             ELSE IF Tail(dupes_map) # << >>
             THEN pc' = "choose" /\ outcome' = ""
             ELSE IF planned = << >>
             THEN pc' = "done" /\ outcome' = "No mergeable maps!"
             ELSE pc' = "refs" /\ outcome' = ""
    /\ UNCHANGED << files, baks, idcounts, all_maps, source, refs, partial,
                    shift_map, maxid, changes, diffs, orig >>

\* Mutant of Unreferenced: every planned source is kept.
Unreferenced_All(srcs, r) == srcs

\* sources = {mapid: sources[mapid] for mapid in sources if mapid not in refs}
Unreferenced(srcs, r) == SelectSeq(srcs, LAMBDA e : e.source \notin r)

\* dedupe, lines 199-205: get_map_refs walks the world (any set of referenced
\* ids, and the walk may be interrupted), then the referenced sources are
\* ruled out.
GetMapRefs ==
    /\ pc = "refs"
    /\ \E r \in SUBSET (DOMAIN all_maps), aborted \in BOOLEAN :
          /\ refs' = r
          /\ partial' = aborted
          /\ sources' = Unreferenced(sources, r)
          /\ IF Unreferenced(sources, r) = << >>
             THEN pc' = "done" /\ outcome' = "All candidates maps have references"
             ELSE pc' = "merging" /\ outcome' = ""
    /\ UNCHANGED << files, baks, idcounts, all_maps, dupes_map, target, candidates,
                    source, shift_map, maxid, changes, diffs, orig >>

\* Mutant of Saves: the target is saved whether or not the walk was interrupted.
Saves_Always(aborted) == aborted \/ ~aborted

\* if not partial: target.save()
Saves(aborted) == ~aborted

\* if not partial: filename.rename(filename.with_suffix(".bak"))
Removes(aborted) == ~aborted

\* dedupe, lines 208-219: one round of the loop over the planned merges.
MergeAndDelete ==
    /\ pc = "merging"
    /\ sources # << >>
    /\ \E e \in {Head(sources)} :
       \E merged \in {IF e.pixels # << >>
                      THEN apply_pixels(all_maps[e.target], e.pixels)
                      ELSE all_maps[e.target]} :
       \E check \in {IF e.pixels # << >>
                     THEN PostMergeCheck(all_maps[e.source], merged)
                     ELSE "ok"} :
       LET saved == IF e.pixels # << >> /\ Saves(partial)
                    THEN [files EXCEPT ![e.target] = merged]
                    ELSE files
       IN /\ source' = e.source
          /\ target' = e.target
          /\ changes' = e.pixels
          /\ all_maps' = [all_maps EXCEPT ![e.target] = merged]
          /\ IF check # "ok"
             THEN /\ pc' = "done" /\ outcome' = check
                  /\ UNCHANGED << files, baks, sources >>
             ELSE /\ files' = IF Removes(partial)
                              THEN [i \in DOMAIN saved \ {e.source} |-> saved[i]]
                              ELSE saved
                  /\ baks' = IF Removes(partial) THEN baks \cup {e.source} ELSE baks
                  /\ sources' = Tail(sources)
                  /\ pc' = IF Tail(sources) = << >> THEN "defrag" ELSE "merging"
                  /\ outcome' = ""
    /\ UNCHANGED << idcounts, dupes_map, candidates, refs, partial, shift_map,
                    maxid, diffs, orig >>

\* dedupe, line 222: defrag_maps(world, maps=all_maps, refs=refs). The plan is
\* logged; with a non-empty plan, line 518 unpacks the refs dict it was given
\* into two names, which raises unless the dict has exactly two keys.
Defragment ==
    /\ pc = "defrag"
    /\ shift_map' = ShiftMap(all_maps)
    /\ maxid' = NewMaxId(all_maps)
    /\ pc' = "done"
    /\ outcome' = IF ShiftMap(all_maps) # {} /\ Cardinality(refs) # 2
                  THEN "ValueError" ELSE "defragmented"
    /\ UNCHANGED << files, baks, idcounts, all_maps, dupes_map, target, candidates,
                    source, sources, refs, partial, changes, diffs, orig >>

NextDedupe ==
    FindDuplicates \/ ChooseTarget \/ GetMapRefs \/ MergeAndDelete \/ Defragment

\* A run of dedupe, or of merge, over a world.
InitRuns == InitDedupe \/ \E w \in Worlds : MergeCommand(w)

NextRuns == NextDedupe \/ NextMerge

SpecRuns == InitRuns /\ [][NextRuns]_vars

\* ---------------------------------------------------------------- claims: merge policy

\* Every divergence of the pair is a value divergence of a raster cell.
DivergeOnlyInRaster(s, t) ==
    \A ds \in {get_map_diffs(s, t)} :
        \A k \in 1 .. Len(ds) : ds[k].category = "value" /\ ds[k].path = ColorsPath

\* Cell c holds conflicting non-blank pixels.
Conflict(s, t, c) == s.colors[c] # 0 /\ t.colors[c] # 0 /\ s.colors[c] # t.colors[c]

\* The cells a change list writes.
Written(pixels) == {pixels[k][1] : k \in 1 .. Len(pixels)}

\* C1 (as claimed): a pair that diverges only in raster cells and holds a cell
\* where both pixels are non-blank and differ is rejected: get_pixels_to_apply
\* raises, can_merge answers not mergeable, merge_map ends in the merge error.
C1_ConflictRejected ==
    [][(pc = "merge_map" /\ DivergeOnlyInRaster(Src, Tgt)
            /\ \E c \in Cells : Conflict(Src, Tgt, c))
        => (/\ get_pixels_to_apply(Src, Tgt).raised
            /\ ~can_merge(Src, Tgt).mergeable
            /\ outcome' = "MCError")]_vars

\* C1 (amended): such a pair is not rejected: get_pixels_to_apply succeeds,
\* can_merge answers mergeable, and the change list has no entry for a cell
\* whose target pixel is non-blank, so merge_map leaves that cell as it was.
C1_ConflictKeepsTarget ==
    [][(pc = "merge_map" /\ DivergeOnlyInRaster(Src, Tgt)
            /\ \E c \in Cells : Conflict(Src, Tgt, c))
        => \A answer \in {can_merge(Src, Tgt)} :
              /\ ~MergePixels.raised
              /\ answer.mergeable
              /\ outcome' # "MCError"
              /\ \A c \in Cells :
                    Tgt.colors[c] # 0 =>
                        /\ c \notin Written(answer.pixels)
                        /\ c \notin Written(changes')
                        /\ all_maps'[target].colors[c] = Tgt.colors[c]
                        /\ files'[target].colors[c] = Tgt.colors[c]]_vars

\* C1 witness: a merge that was carried out on a pair with a conflicting cell.
C1_Witness ==
    /\ pc = "done"
    /\ outcome = "merged"
    /\ changes # << >>
    /\ all_maps[source].DataVersion = all_maps[target].DataVersion
    /\ \E c \in Cells : Conflict(all_maps[source], all_maps[target], c)

\* C4 (as claimed): when get_pixels_to_apply succeeds with at least one
\* divergence and an empty change list, every divergence is a raster cell whose
\* source pixel is blank, and merge_map's assertion that the source raster is
\* all blank does not fail.
C4_NoChangesMeansBlankSource ==
    [][(pc = "merge_map" /\ ~MergePixels.raised /\ MergePixels.i > 0
            /\ MergePixels.pixels = << >>)
        => /\ \A ds \in {get_map_diffs(Src, Tgt)} :
                  \A k \in 1 .. Len(ds) : ds[k].path = ColorsPath /\ ds[k].source = 0
           /\ outcome' # "AssertionError"]_vars

\* A divergence get_pixels_to_apply may pass over: a raster cell, or the
\* DataVersion when the target's is at least the source's.
Tolerated(d, s, t) ==
    /\ d.category = "value"
    /\ \/ d.path = ColorsPath
       \/ /\ d.path = << >> /\ d.key = "DataVersion"
          /\ t.DataVersion >= s.DataVersion

\* C5: get_pixels_to_apply succeeds only if every divergence is a value
\* divergence in the raster or at DataVersion with target >= source; any other
\* divergence makes it raise the merge error.
C5_SucceedsOnlyIfTolerated ==
    [][pc = "merge_map" =>
        \A ds \in {get_map_diffs(Src, Tgt)} :
        \A tolerated \in {\A k \in 1 .. Len(ds) : Tolerated(ds[k], Src, Tgt)} :
           /\ ~tolerated => (MergePixels.raised /\ outcome' = "MCError")
           /\ outcome' # "MCError" => tolerated]_vars

\* C5 witness: a merge carried out across a DataVersion divergence.
C5_Witness ==
    /\ pc = "done"
    /\ outcome = "merged"
    /\ all_maps[source].hasDataVersion
    /\ all_maps[source].DataVersion < all_maps[target].DataVersion

\* C11 (as claimed): when get_pixels_to_apply reports zero divergences the
\* source and the target are equal records, also when the target holds tags
\* the source has not: merge_map's assertion source == target does not fail.
C11_ZeroDivergencesMeansEqual ==
    [][(pc = "merge_map" /\ ~MergePixels.raised /\ MergePixels.i = 0)
        => (Src = Tgt /\ outcome' # "AssertionError")]_vars

\* ---------------------------------------------------------------- defrag command

\* The ids a map file may have in the runs of defrag are 0..MaxDefragId.
MaxDefragId == 5

InitDefrag ==
    \E S \in SUBSET (0 .. MaxDefragId) :
        /\ S # {}
        /\ \E counter \in {MaxOf(S), MaxDefragId} :
              Fresh("defrag_cmd", [i \in S |-> BaseMap], counter)

\* defrag: defrag_maps(world, maps=None, refs=None). The maps are loaded, the
\* moves and the new counter are computed and logged; with moves to make the
\* world is walked for references; no file and no counter is written.
DefragMaps ==
    /\ pc = "defrag_cmd"
    /\ all_maps' = files
    /\ shift_map' = ShiftMap(files)
    /\ maxid' = NewMaxId(files)
    /\ IF ShiftMap(files) # {}
       THEN \E r \in SUBSET (DOMAIN files), aborted \in BOOLEAN :
               refs' = r /\ partial' = aborted
       ELSE UNCHANGED << refs, partial >>
    /\ outcome' = IF idcounts = NewMaxId(files)
                  THEN "No adjustments are needed in idcounts.dat"
                  ELSE "idcounts.dat to adjust"
    /\ pc' = "done"
    /\ UNCHANGED << files, baks, idcounts, dupes_map, target, candidates, source,
                    sources, changes, diffs, orig >>

NextDefrag == DefragMaps

SpecDefrag == InitDefrag /\ [][NextDefrag]_vars

\* ---------------------------------------------------------------- target choice

\* The ids of the members of a group are among 0..MaxGroupId.
MaxGroupId == 3

\* The orders a list of the ids S can be in.
Orders(S) ==
    {p \in [1 .. Cardinality(S) -> S] : \A a, b \in 1 .. Cardinality(S) : p[a] = p[b] => a = b}

\* dedupe at its loop over the groups, with one group of maps of one place, of
\* any DataVersions, listed in any order.
InitDupes ==
    \E S \in SUBSET (0 .. MaxGroupId) :
        /\ Cardinality(S) >= 2
        /\ \E w \in [S -> {[BaseMap EXCEPT !.DataVersion = v] : v \in 1 .. MaxDataVersion}],
              dupes \in Orders(S) :
              Started("choose", w, MaxOf(S), w, << dupes >>)

NextDupes == ChooseTarget

SpecDupes == InitDupes /\ [][NextDupes]_vars

\* ---------------------------------------------------------------- claims: runs

\* A step of a run that applies a source's changes to a target.
AppliesChanges ==
    \/ pc = "merging" /\ Head(sources).pixels # << >>
    \/ pc = "merge_map" /\ ~MergePixels.raised /\ MergePixels.pixels # << >>

\* C2 (as claimed): a pixel of a target that is non-blank immediately before a
\* source's changes are applied has the same value immediately after, also
\* when several sources of one group are merged into the same target.
C2_NonBlankBeforeApplyKept ==
    [][AppliesChanges =>
        \A i \in DOMAIN all_maps : \A c \in Cells :
            all_maps[i].colors[c] # 0 =>
                all_maps'[i].colors[c] = all_maps[i].colors[c]]_vars

\* C2 (amended): a pixel of a target that was non-blank when the change lists
\* were computed, that is in the target as the run loaded it, keeps its value
\* in memory and on disk through every merge of the run; in a run of merge,
\* where each change list is computed right before it is applied, so does a
\* pixel that is non-blank immediately before that.
C2_NonBlankAsLoadedKept ==
    /\ [](\A i \in DOMAIN all_maps : \A c \in Cells :
            orig.files[i].colors[c] # 0 =>
                /\ all_maps[i].colors[c] = orig.files[i].colors[c]
                /\ i \in DOMAIN files => files[i].colors[c] = orig.files[i].colors[c])
    /\ [][(pc = "merge_map" /\ AppliesChanges) =>
            \A c \in Cells :
                Tgt.colors[c] # 0 => all_maps'[target].colors[c] = Tgt.colors[c]]_vars

\* C2 witness: dedupe has merged two sources into a target that had a painted
\* cell when it was loaded.
C2_Witness ==
    /\ pc = "done"
    /\ outcome = "defragmented"
    /\ changes # << >>
    /\ Cardinality(baks) >= 2
    /\ \E c \in Cells : orig.files[target].colors[c] # 0

\* C3: after a source's change list is applied to the target, a second
\* get_pixels_to_apply(source, target) succeeds with an empty change list: the
\* assertions after apply_pixels in merge_map and in dedupe do not fail.
C3_NothingLeftToApply ==
    [][AppliesChanges =>
        \A r \in {get_pixels_to_apply(all_maps'[source'], all_maps'[target'])} :
            /\ ~r.raised
            /\ r.pixels = << >>
            /\ outcome' \notin {"AssertionError", "MCError"}]_vars

\* C3 witness: dedupe has applied the pixels of a second source of a group to
\* a target that an earlier source of the group had already been merged into.
C3_Witness ==
    /\ pc \in {"defrag", "done"}
    /\ outcome \in {"", "defragmented"}
    /\ changes # << >>
    /\ Cardinality(baks) >= 2
    /\ all_maps[target] # orig.files[target]

\* The rank of id i among the ids S.
Rank(S, i) == Cardinality({j \in S : j < i})

\* The moves that bring the ids S down to 0..n-1, keeping their order.
Compaction(S) == {<< i, Rank(S, i) >> : i \in {j \in S : Rank(S, j) # j}}

\* C8 (as claimed): when dedupe ran with a complete reference index, the
\* defragmentation is planned over the records that remain after the merged
\* sources were removed, and the new counter is their number minus one.
C8_DefragOverSurvivors ==
    (pc = "done" /\ outcome \in {"defragmented", "ValueError"} /\ ~partial)
        => /\ shift_map = Compaction(DOMAIN files)
           /\ maxid = Cardinality(DOMAIN files) - 1

\* C9: in a run of dedupe whose reference walk was interrupted, the store is
\* left as it was: no record saved, no file renamed or moved, the counter not
\* written.
C9_PartialLeavesStore ==
    partial =>
        /\ files = orig.files
        /\ baks = {}
        /\ idcounts = orig.idcounts

\* C9 witness: dedupe has gone through a merge with pixels to apply, in memory
\* only, after an interrupted walk.
C9_Witness ==
    /\ partial
    /\ pc = "done"
    /\ outcome \in {"defragmented", "ValueError"}
    /\ changes # << >>
    /\ all_maps[target] # orig.files[target]

\* The ids of a list of planned merges.
SourceIds(srcs) == {srcs[k].source : k \in 1 .. Len(srcs)}

\* C10: in a run of dedupe, a record with an entry in the reference index is
\* not removed and is not merged into a target as a source.
C10_ReferencedNotMerged ==
    \A i \in refs :
        /\ i \notin baks
        /\ i \in DOMAIN files
        /\ pc \in {"merging", "defrag", "done"} =>
              (i # source /\ i \notin SourceIds(sources))

\* C10 witness: dedupe has removed a source of a group while another candidate
\* of the group, which has a reference, was left alone.
C10_Witness ==
    /\ pc = "done"
    /\ outcome = "defragmented"
    /\ baks # {}
    /\ \E k \in 1 .. Len(candidates) :
          candidates[k] \in refs /\ candidates[k] \in DOMAIN files

\* ---------------------------------------------------------------- claims: target choice

\* C6: the merge target of a group is its member with the highest DataVersion
\* and, among those, the lowest id; the other members are the candidates, by
\* ascending DataVersion and then descending id; so the choice depends on the
\* members only, not on the order they are listed in.
C6_TargetChoice ==
    pc # "choose" =>
        LET G == DOMAIN all_maps
            dv(i) == all_maps[i].DataVersion
        IN /\ target \in G
           /\ \A j \in G : dv(j) <= dv(target)
           /\ \A j \in G : dv(j) = dv(target) => target <= j
           /\ Len(candidates) = Cardinality(G) - 1
           /\ {candidates[k] : k \in 1 .. Len(candidates)} = G \ {target}
           /\ \A a, b \in 1 .. Len(candidates) :
                 a < b =>
                     \/ dv(candidates[a]) < dv(candidates[b])
                     \/ /\ dv(candidates[a]) = dv(candidates[b])
                        /\ candidates[a] > candidates[b]

\* C6 witness: a target chosen by the tie-break on the id, with two candidates
\* of one DataVersion behind it.
C6_Witness ==
    /\ pc # "choose"
    /\ Len(candidates) >= 2
    /\ all_maps[candidates[Len(candidates)]].DataVersion = all_maps[target].DataVersion
    /\ all_maps[candidates[1]].DataVersion = all_maps[candidates[2]].DataVersion

\* ---------------------------------------------------------------- claims: defragmentation

\* The id of record i after the planned moves are made.
Moved(plan, i) == IF \E m \in plan : m[1] = i
                  THEN (CHOOSE m \in plan : m[1] = i)[2]
                  ELSE i

\* C7: for records with distinct ids taken in ascending order, the plan of
\* defrag_maps holds exactly the moves id -> rank of the ids that differ from
\* their rank; making the moves leaves the ids 0..n-1 in the same order.
\* Ids {0,2,3,5} give 2->1, 3->2, 5->3 and ids {0,1,2,3} give no move.
C7_ShiftPlan ==
    pc = "done" =>
        LET S == DOMAIN all_maps
        IN /\ shift_map = Compaction(S)
           /\ \A m \in shift_map : m[1] > m[2]
           /\ {Moved(shift_map, i) : i \in S} = 0 .. (Cardinality(S) - 1)
           /\ \A i, j \in S : i < j => Moved(shift_map, i) < Moved(shift_map, j)
           /\ S = {0, 2, 3, 5} => shift_map = {<< 2, 1 >>, << 3, 2 >>, << 5, 3 >>}
           /\ S = {0, 1, 2, 3} => shift_map = {}

\* C7 witness: the plan for the ids {0,2,3,5}.
C7_Witness ==
    /\ pc = "done"
    /\ DOMAIN all_maps = {0, 2, 3, 5}
    /\ shift_map = {<< 2, 1 >>, << 3, 2 >>, << 5, 3 >>}

====
